---- MODULE Spec2Model ----
(***************************************************************************)
(* A model of the two scripts of the repository:                           *)
(*   blender_addons/glb_hotload_export.py  - the GLB Hotload add-on         *)
(*     (import / reload / export operators, viewer launch);                *)
(*   src/scratch/blender_glb_zoo/images_to_glb.py - the batch conversion   *)
(*     of a directory of images to GLB planes.                             *)
(* The host application (bpy), the filesystem and the process table are    *)
(* the environment: their outcomes (an importer or exporter that raises,   *)
(* pgrep's exit status, a Popen that fails) are inputs drawn with \E.      *)
(***************************************************************************)
EXTENDS Integers, Sequences, FiniteSets, TLC

VARIABLES
    \* ---- add-on flow ----
    props,      \* scene.hotload_props (HOTLOAD_Props)
    objects,    \* bpy.data.objects: a set of [id, type]
    selected,   \* context.selected_objects
    fs,         \* the paths that exist on disk (paths are sequences of components)
    procs,      \* the processes started by subprocess.Popen and still alive
    last,       \* what the most recent operator execution did
    \* ---- batch flow (images_to_glb.py) ----
    argv,       \* sys.argv
    tree,       \* the entries under the input directory
    pc,         \* where the script is: start, loop, done, exit1
    pending,    \* the entries rglob has not yielded yet
    count,      \* process_directory's count
    scene,      \* the objects of the host scene
    selection,  \* the selected objects among them
    images,     \* bpy.data.images
    outDirs,    \* the directories created under the output directory
    out,        \* the .glb files written: output path -> content
    log,        \* this run's conversions, in order
    run,        \* which run of the script this is
    firstOut    \* the output files as the first run left them

addonVars == <<props, objects, selected, fs, procs, last>>

batchVars == <<argv, tree, pc, pending, count, scene, selection, images,
               outDirs, out, log, run, firstOut>>

vars == <<props, objects, selected, fs, procs, last,
          argv, tree, pc, pending, count, scene, selection, images,
          outDirs, out, log, run, firstOut>>

(***************************************************************************)
(* Bounds of the model.                                                    *)
(***************************************************************************)
MaxImports == 1
MaxProcs == 2

(***************************************************************************)
(* Paths.  A path is the sequence of its components; "" is <<>>, an        *)
(* absolute path starts with "/", a path relative to the .blend file with  *)
(* "//" (Blender's convention, resolved by bpy.path.abspath).              *)
(***************************************************************************)
BlendDir == <<"/", "proj">>

DefaultExportPath == <<"/", "assets", "hotload.glb">>
DefaultViewerPath == <<"/", "build", "glb_hotload">>
DefaultZooPath == <<"/", "zoo">>

ExportPathChoices ==
    { <<>>, <<"//", "hotload.glb">>, DefaultExportPath }

ViewerPathChoices ==
    { <<>>, DefaultViewerPath, <<"/", "build", "missing">> }

\* What the file browser can hand to HOTLOAD_OT_import as self.filepath.
FilepathChoices ==
    { <<>>, <<"/", "zoo", "model.glb">>, <<"/", "zoo", "gone.glb">> }

\* The disk before the add-on is used: the default export directory /assets is
\* not there yet, the zoo holds one model, the viewer is built.
InitialFs ==
    { <<"/">>, BlendDir, <<"/", "build">>, DefaultViewerPath,
      DefaultZooPath, <<"/", "zoo", "model.glb">> }

abspath(p) ==
    IF Len(p) > 0 /\ p[1] = "//" THEN BlendDir \o Tail(p) ELSE p

dirname(p) ==
    IF Len(p) = 0 THEN <<>>
    ELSE IF Len(p) = 1 THEN (IF p[1] = "/" THEN p ELSE <<>>)
    ELSE SubSeq(p, 1, Len(p) - 1)

exists(p) == p \in fs

makedirs(d) == fs \cup { SubSeq(d, 1, k) : k \in 1..Len(d) }

(***************************************************************************)
(* The scene.                                                              *)
(***************************************************************************)
ClearTypes == {"MESH", "CURVE", "SURFACE", "META", "FONT", "EMPTY"}

ImportTypes == {"EMPTY", "LIGHT"}

DefaultObjects == { [id |-> 0, type |-> "MESH"], [id |-> -1, type |-> "CAMERA"] }

clear_scene_objects_all(objs) == {}

\* The objects left by clear_scene_objects().
clear_scene_objects(objs) == { o \in objs : o.type \notin ClearTypes }

\* The object the host importer adds; Blender gives it a name no object has.
NewObject(t) ==
    [id |-> CHOOSE i \in 1..MaxImports : \A o \in objects : o.id # i, type |-> t]

(***************************************************************************)
(* The record of an operator execution.                                    *)
(***************************************************************************)
Idle ==
    [ op |-> "none", result |-> "none", reports |-> <<>>,
      path |-> <<>>, pathFound |-> FALSE,
      mode |-> "none", hadSelection |-> FALSE, clear |-> FALSE,
      viewerExists |-> FALSE,
      clearCalled |-> FALSE, importerCalled |-> FALSE, importerRaised |-> FALSE,
      exporterCalled |-> FALSE, exporterRaised |-> FALSE,
      pgrep |-> "none", viewerRunning |-> FALSE, popenCalled |-> FALSE,
      created |-> {}, removed |-> {}, added |-> {}, started |-> {} ]

(***************************************************************************)
(* HOTLOAD_OT_import.execute and HOTLOAD_OT_import_from_path.execute.      *)
(***************************************************************************)
PathMissingOnlyEmpty(import_path) == import_path = <<>>

\* `not import_path or not os.path.exists(import_path)`
PathMissing(import_path) == import_path = <<>> \/ ~exists(import_path)

\* The body the two import operators share, from the existence check on.
\* The host importer may raise; when it does not it adds an object.
ImportBody(opname, import_path) ==
    IF PathMissing(import_path)
    THEN /\ UNCHANGED <<objects, selected>>
         /\ last' = [Idle EXCEPT !.op = opname, !.result = "CANCELLED",
                                 !.reports = <<"ERROR">>, !.path = import_path,
                                 !.pathFound = FALSE, !.clear = props.clear_scene]
    ELSE LET cleared == IF props.clear_scene THEN clear_scene_objects(objects)
                        ELSE objects
             sel == IF props.clear_scene THEN {} ELSE selected
             called == [Idle EXCEPT !.op = opname, !.path = import_path,
                                    !.pathFound = TRUE,
                                    !.clear = props.clear_scene,
                                    !.clearCalled = props.clear_scene,
                                    !.importerCalled = TRUE]
         IN  \E importerRaises \in BOOLEAN :
               IF importerRaises
               THEN /\ objects' = cleared
                    /\ selected' = sel \cap cleared
                    /\ last' = [called EXCEPT !.result = "CANCELLED",
                                              !.reports = <<"ERROR">>,
                                              !.importerRaised = TRUE,
                                              !.removed = objects \ objects',
                                              !.added = objects' \ objects]
               ELSE \E newType \in ImportTypes :
                    /\ objects' = cleared \cup {NewObject(newType)}
                    /\ selected' = {NewObject(newType)}
                    /\ last' = [called EXCEPT !.result = "FINISHED",
                                              !.reports = <<"INFO">>,
                                              !.removed = objects \ objects',
                                              !.added = objects' \ objects]

HOTLOAD_OT_import_execute ==
    /\ Cardinality({ o \in objects : o.id > 0 }) < MaxImports
    /\ \E filepath \in FilepathChoices :
          ImportBody("import",
                     IF filepath # <<>> THEN filepath ELSE abspath(props.export_path))
    /\ UNCHANGED <<props, fs, procs>>
    /\ UNCHANGED batchVars

HOTLOAD_OT_import_from_path_execute ==
    /\ Cardinality({ o \in objects : o.id > 0 }) < MaxImports
    /\ ImportBody("import_from_path", abspath(props.export_path))
    /\ UNCHANGED <<props, fs, procs>>
    /\ UNCHANGED batchVars

(***************************************************************************)
(* HOTLOAD_OT_export.execute.                                              *)
(***************************************************************************)
\* pgrep -f matches a process whose command line contains 'glb_hotload'.
PatternHit(path) == \E i \in 1..Len(path) : path[i] = "glb_hotload"

\* What subprocess.run(['pgrep', '-f', 'glb_hotload']) can do: raise (no pgrep on
\* this machine), exit 0 (a match, which may be a process this add-on never
\* started) or exit 1 (no match, impossible while a matching viewer is alive).
PgrepOutcomes ==
    {"raise", "rc0"} \cup
    (IF \E i \in 1..Len(procs) : PatternHit(procs[i].cmd) \/ PatternHit(procs[i].arg)
     THEN {} ELSE {"rc1"})

\* The processes in `new` that were not in `old`.
NewProcs(old, new) == { new[k] : k \in (Len(old) + 1)..Len(new) }

\* viewer_running after the try/except around pgrep.
ViewerRunning(pgrep) == pgrep = "rc0"

LaunchAlways(viewer_running) == TRUE

\* `if not viewer_running:`
LaunchWanted(viewer_running) == ~viewer_running

ExportNeverAborts(raised) == FALSE

\* The except branch of the export: report ERROR, return CANCELLED.
ExportAborts(raised) == raised

\* `if export_dir and not os.path.exists(export_dir):`
NeedsDir(export_dir) == export_dir # <<>> /\ ~exists(export_dir)

HOTLOAD_OT_export_execute ==
    /\ Len(procs) < MaxProcs
    /\ LET export_path == abspath(props.export_path)
           export_dir == dirname(export_path)
           base == [Idle EXCEPT !.op = "export", !.path = export_path,
                                !.mode = props.export_mode,
                                !.hadSelection = (selected # {})]
       IN
       \E mkdirRaises \in (IF NeedsDir(export_dir) THEN BOOLEAN ELSE {FALSE}) :
       IF mkdirRaises
       THEN \* os.makedirs raises: nothing catches it
            /\ UNCHANGED <<fs, procs>>
            /\ last' = [base EXCEPT !.result = "RAISED"]
       ELSE
       LET fs1 == IF NeedsDir(export_dir) THEN makedirs(export_dir) ELSE fs IN
       IF props.export_mode = "SELECTED" /\ selected = {}
       THEN /\ fs' = fs1
            /\ UNCHANGED procs
            /\ last' = [base EXCEPT !.result = "CANCELLED",
                                    !.reports = <<"WARNING">>,
                                    !.created = fs' \ fs]
       ELSE
       \* the host exporter may raise, and cannot write to an empty path
       \E raised \in (IF export_path = <<>> THEN {TRUE} ELSE BOOLEAN) :
       LET fs2 == IF raised THEN fs1 ELSE fs1 \cup {export_path}
           exported == [base EXCEPT !.exporterCalled = TRUE,
                                    !.exporterRaised = raised]
           viewer_path == abspath(props.viewer_path)
           viewerOk == viewer_path # <<>> /\ viewer_path \in fs2
           proc == [cmd |-> viewer_path, arg |-> export_path]
       IN
       IF ExportAborts(raised)
       THEN /\ fs' = fs2
            /\ UNCHANGED procs
            /\ last' = [exported EXCEPT !.result = "CANCELLED",
                                        !.reports = <<"ERROR">>,
                                        !.created = fs' \ fs]
       ELSE IF ~viewerOk
       THEN /\ fs' = fs2
            /\ UNCHANGED procs
            /\ last' = [exported EXCEPT
                          !.result = "FINISHED",
                          !.reports = <<IF raised THEN "ERROR" ELSE "INFO">>,
                          !.created = fs' \ fs]
       ELSE
       \E pgrep \in PgrepOutcomes :
       LET checked == [exported EXCEPT !.viewerExists = TRUE, !.pgrep = pgrep,
                                       !.viewerRunning = ViewerRunning(pgrep)]
       IN
       IF ~LaunchWanted(ViewerRunning(pgrep))
       THEN /\ fs' = fs2
            /\ UNCHANGED procs
            /\ last' = [checked EXCEPT
                          !.result = "FINISHED",
                          !.reports = <<IF raised THEN "ERROR" ELSE "INFO">>,
                          !.created = fs' \ fs]
       ELSE
       \E popenRaises \in BOOLEAN :
            /\ fs' = fs2
            /\ procs' = IF popenRaises THEN procs ELSE Append(procs, proc)
            /\ last' = [checked EXCEPT
                          !.result = "FINISHED",
                          !.reports = <<IF raised THEN "ERROR" ELSE "INFO",
                                        IF popenRaises THEN "WARNING" ELSE "INFO">>,
                          !.popenCalled = TRUE,
                          !.created = fs' \ fs,
                          !.started = NewProcs(procs, procs')]
    /\ UNCHANGED <<props, objects, selected>>
    /\ UNCHANGED batchVars

(***************************************************************************)
(* The user and the environment.                                           *)
(***************************************************************************)
\* HOTLOAD_OT_set_path.execute, or typing into the panel's export path field.
HOTLOAD_OT_set_path_execute ==
    /\ \E filepath \in ExportPathChoices :
          props' = [props EXCEPT !.export_path = filepath]
    /\ last' = Idle
    /\ UNCHANGED <<objects, selected, fs, procs>>
    /\ UNCHANGED batchVars

\* The panel's other fields (HOTLOAD_PT_panel.draw).
PanelEdit ==
    /\ \/ \E v \in ViewerPathChoices : props' = [props EXCEPT !.viewer_path = v]
       \/ \E m \in {"SCENE", "SELECTED"} : props' = [props EXCEPT !.export_mode = m]
       \/ \E c \in BOOLEAN : props' = [props EXCEPT !.clear_scene = c]
    /\ last' = Idle
    /\ UNCHANGED <<objects, selected, fs, procs>>
    /\ UNCHANGED batchVars

\* The user selects objects in the viewport.
SelectObjects ==
    /\ \E s \in SUBSET objects : selected' = s
    /\ last' = Idle
    /\ UNCHANGED <<props, objects, fs, procs>>
    /\ UNCHANGED batchVars

\* A viewer started earlier exits.
ViewerExit ==
    /\ \E i \in 1..Len(procs) :
          procs' = SubSeq(procs, 1, i - 1) \o SubSeq(procs, i + 1, Len(procs))
    /\ last' = Idle
    /\ UNCHANGED <<props, objects, selected, fs>>
    /\ UNCHANGED batchVars

(***************************************************************************)
(* Python floats.  width / height of two ints is the IEEE 754 double       *)
(* nearest to the quotient; float * int rounds the exact product the same  *)
(* way.  A positive double is [exp, hi, mid, lo]: its 53-bit significand   *)
(* is hi * 2^36 + mid * 2^18 + lo (hi holds the top 17 bits, the first of  *)
(* them 1), and its value is significand * 2^(exp - 52).                   *)
(***************************************************************************)
LimbBits == 18
TopBits == 17

Limb == 2^LimbBits
TopMin == 2^(TopBits - 1)
TopMax == 2^TopBits

Zero == [exp |-> 0, hi |-> 0, mid |-> 0, lo |-> 0]

One == [exp |-> 0, hi |-> TopMin, mid |-> 0, lo |-> 0]

\* The number of binary digits of n > 0.
BitLen(n) == CHOOSE k \in 1..30 : 2^(k - 1) <= n /\ n < 2^k

\* float(n) for a small int n.
FromInt(n) ==
    IF n = 0 THEN Zero
    ELSE [exp |-> BitLen(n) - 1, hi |-> n * 2^(TopBits - BitLen(n)),
          mid |-> 0, lo |-> 0]

\* The next double above f (f > 0): one unit in the last place up.
Succ(f) ==
    IF f.lo + 1 < Limb THEN [f EXCEPT !.lo = f.lo + 1]
    ELSE IF f.mid + 1 < Limb THEN [f EXCEPT !.lo = 0, !.mid = f.mid + 1]
    ELSE IF f.hi + 1 < TopMax THEN [f EXCEPT !.lo = 0, !.mid = 0, !.hi = f.hi + 1]
    ELSE [exp |-> f.exp + 1, hi |-> TopMin, mid |-> 0, lo |-> 0]

RECURSIVE ScaleUp(_, _, _)
\* The least k with x * 2^k >= y, and x * 2^k.
ScaleUp(x, y, k) == IF x >= y THEN [n |-> x, k |-> k] ELSE ScaleUp(2 * x, y, k + 1)

RECURSIVE ScaleDen(_, _, _)
\* The greatest k with y * 2^k <= x, and y * 2^k.
ScaleDen(x, y, k) == IF 2 * y > x THEN [n |-> y, k |-> k] ELSE ScaleDen(x, 2 * y, k + 1)

\* a / b for ints a >= 0, b > 0: correctly rounded (ties to even).  The
\* quotient num / den lies in [1, 2); long division gives its 17, 18 and 18
\* next digits and the remainder decides the rounding.
Div(a, b) ==
    IF a = 0 THEN Zero
    ELSE LET scaledNum == ScaleUp(a, b, 0)
             scaledDen == ScaleDen(a, b, 0)
             num == IF a < b THEN scaledNum.n ELSE a
             den == IF a < b THEN b ELSE scaledDen.n
             expo == IF a < b THEN 0 - scaledNum.k ELSE scaledDen.k
             q1 == (num * TopMin) \div den
             r1 == (num * TopMin) % den
             q2 == (r1 * Limb) \div den
             r2 == (r1 * Limb) % den
             q3 == (r2 * Limb) \div den
             r3 == (r2 * Limb) % den
             trunc == [exp |-> expo, hi |-> q1, mid |-> q2, lo |-> q3]
         IN  IF 2 * r3 > den \/ (2 * r3 = den /\ q3 % 2 = 1)
             THEN Succ(trunc) ELSE trunc

\* f * n for a double f >= 0 and a small int n >= 0: correctly rounded.  The
\* exact product has `extra` digits more than 53; they are rounded away.
Mul(f, n) ==
    IF f = Zero \/ n = 0 THEN Zero
    ELSE LET p3 == f.lo * n
             p2 == f.mid * n + (p3 \div Limb)
             p1 == f.hi * n + (p2 \div Limb)
             l3 == p3 % Limb
             l2 == p2 % Limb
             extra == BitLen(p1) - TopBits
             cut == 2^extra
             kept == [exp |-> f.exp + extra,
                      hi |-> p1 \div cut,
                      mid |-> (l2 \div cut) + (p1 % cut) * (Limb \div cut),
                      lo |-> (l3 \div cut) + (l2 % cut) * (Limb \div cut)]
             tail == l3 % cut
         IN  IF extra > 0 /\ (2 * tail > cut \/ (2 * tail = cut /\ kept.lo % 2 = 1))
             THEN Succ(kept) ELSE kept

\* f <= 1.0
AtMostOne(f) == f = Zero \/ f.exp < 0 \/ f = One

\* The doubles x and y are equal or neighbours.
WithinOneUlp(x, y) ==
    \/ x = y
    \/ x # Zero /\ y # Zero /\ (Succ(x) = y \/ Succ(y) = x)

(***************************************************************************)
(* images_to_glb.py: the input tree and the host scene.                    *)
(***************************************************************************)
MaxRuns == 2
MaxDim == 24

image_extensions == {".png", ".jpg", ".jpeg", ".bmp", ".gif", ".tiff", ".tga"}

\* str.lower() on a suffix.
lower(ext) ==
    CASE ext = ".PNG" -> ".png"
      [] ext = ".JPG" -> ".jpg"
      [] OTHER -> ext

\* The image files an input tree may hold: two in the top directory with the
\* same stem, one in a subdirectory with an upper-case suffix.
BaseImages ==
    { [dir |-> <<>>, stem |-> "a", ext |-> ".png", w |-> 2, h |-> 1],
      [dir |-> <<>>, stem |-> "a", ext |-> ".jpg", w |-> 1, h |-> 3],
      [dir |-> <<"sub">>, stem |-> "b", ext |-> ".PNG", w |-> 4, h |-> 4] }

\* Why converting a file raises, if it does: the host cannot load the image, or
\* the host exporter fails.  (An image of size 0 x 0 raises by itself.)
FailChoices == {"none", "load", "export"}

FileEntry(b, fail) ==
    [kind |-> "file", dir |-> b.dir, stem |-> b.stem, ext |-> b.ext,
     w |-> b.w, h |-> b.h, fail |-> fail]

NotesEntry ==
    [kind |-> "file", dir |-> <<>>, stem |-> "notes", ext |-> ".txt",
     w |-> 0, h |-> 0, fail |-> "none"]

DirEntry(d) ==
    [kind |-> "dir", dir |-> <<>>, stem |-> d, ext |-> "",
     w |-> 0, h |-> 0, fail |-> "none"]

\* The entries rglob('*') yields for a choice of files: the files, and the
\* directories that hold them.
TreeOf(choice, withNotes) ==
    LET files == { FileEntry(b, choice[b]) : b \in { x \in BaseImages : choice[x] # "absent" } }
    IN  files \cup { DirEntry(f.dir[1]) : f \in { x \in files : x.dir # <<>> } }
              \cup (IF withNotes THEN {NotesEntry} ELSE {})

Trees ==
    { TreeOf(choice, withNotes) :
        choice \in [BaseImages -> FailChoices \cup {"absent"}],
        withNotes \in BOOLEAN }

\* `file_path.is_file() and file_path.suffix.lower() in image_extensions`
IsImage(e) == e.kind = "file" /\ lower(e.ext) \in image_extensions

NoImage == [dir |-> <<>>, stem |-> "", ext |-> "", w |-> 0, h |-> 0]

\* The scene Blender starts with.
DefaultScene ==
    { [name |-> "Cube", kind |-> "MESH", plane_width |-> Zero,
       plane_height |-> Zero, image |-> NoImage],
      [name |-> "Camera", kind |-> "CAMERA", plane_width |-> Zero,
       plane_height |-> Zero, image |-> NoImage] }

DefaultSelection == { o \in DefaultScene : o.name = "Cube" }

(***************************************************************************)
(* clear_scene, create_textured_plane, export_to_glb, convert_image_to_glb *)
(***************************************************************************)
\* Select all, delete, then drop the data blocks left without users: with no
\* object left no image has a user.
clear_scene(sc, sel, imgs) == [scene |-> {}, selection |-> {}, images |-> {}]

PlaneSizeSwapped(width, height) ==
    IF width > height
    THEN [ok |-> TRUE, plane_width |-> Div(height, width), plane_height |-> One]
    ELSE IF height = 0
    THEN [ok |-> FALSE, plane_width |-> Zero, plane_height |-> Zero]
    ELSE [ok |-> TRUE, plane_width |-> Div(width, height), plane_height |-> One]

\* The aspect ratio, normalised to at most 1.0; ok is FALSE where the
\* division raises ZeroDivisionError.
PlaneSize(width, height) ==
    IF width > height
    THEN [ok |-> TRUE, plane_width |-> One, plane_height |-> Div(height, width)]
    ELSE IF height = 0
    THEN [ok |-> FALSE, plane_width |-> Zero, plane_height |-> Zero]
    ELSE [ok |-> TRUE, plane_width |-> Div(width, height), plane_height |-> One]

ImageOf(e) == [dir |-> e.dir, stem |-> e.stem, ext |-> e.ext, w |-> e.w, h |-> e.h]

\* os.path.join(output_dir, f"{image_name}.glb"): the directory and the name
\* without its .glb suffix.
OutputPath(out_subdir, image_name) == [dir |-> out_subdir, name |-> image_name]

\* The files after the exporter wrote `content` to `path`.
Written(files, path, content) ==
    [k \in DOMAIN files \cup {path} |-> IF k = path THEN content ELSE files[k]]

\* One call of convert_image_to_glb: how it ended and what it left behind.
convert_image_to_glb(e, out_subdir) ==
    LET cleared == clear_scene(scene, selection, images)
        size == PlaneSize(e.w, e.h)
        plane == [name |-> e.stem, kind |-> "MESH",
                  plane_width |-> size.plane_width,
                  plane_height |-> size.plane_height, image |-> ImageOf(e)]
        built == [scene |-> cleared.scene \cup {plane}, selection |-> {plane},
                  images |-> cleared.images \cup {ImageOf(e)}]
    IN  IF e.fail = "load"
        THEN \* bpy.data.images.load raises
             [outcome |-> "load", scene |-> cleared.scene,
              selection |-> cleared.selection, images |-> cleared.images,
              out |-> out, atExport |-> {}]
        ELSE IF ~size.ok
        THEN \* ZeroDivisionError: the image is loaded, no plane is built
             [outcome |-> "zerodiv", scene |-> cleared.scene,
              selection |-> cleared.selection,
              images |-> cleared.images \cup {ImageOf(e)},
              out |-> out, atExport |-> {}]
        ELSE IF e.fail = "export"
        THEN \* the host exporter raises: the plane stays in the scene
             [outcome |-> "export", scene |-> built.scene,
              selection |-> built.selection, images |-> built.images,
              out |-> out, atExport |-> built.scene]
        ELSE [outcome |-> "ok", scene |-> built.scene,
              selection |-> built.selection, images |-> built.images,
              out |-> Written(out, OutputPath(out_subdir, e.stem), built.selection),
              atExport |-> built.scene]

(***************************************************************************)
(* main and process_directory.                                             *)
(***************************************************************************)
Script == <<"blender", "images_to_glb.py">>

ArgvChoices ==
    { Script,
      Script \o <<"--">>,
      Script \o <<"--", "in">>,
      Script \o <<"--", "in", "out">>,
      Script \o <<"--", "nowhere", "out">> }

\* The directories on disk when the script starts.
isdir(d) == d = "in"

\* `'--' in argv`
HasSeparator(a) == \E i \in 1..Len(a) : a[i] = "--"

\* argv[argv.index('--') + 1:]
AfterSeparator(a) ==
    LET first == CHOOSE i \in 1..Len(a) : a[i] = "--" /\ \A j \in 1..(i - 1) : a[j] # "--"
    IN  SubSeq(a, first + 1, Len(a))

InputDirNeverMissing(input_dir) == FALSE

\* `if not os.path.isdir(input_dir):`
InputDirMissing(input_dir) == ~isdir(input_dir)

CountAfterAlways(n, ok) == n + 1

\* count += 1 is the last statement of the try block.
CountAfter(n, ok) == IF ok THEN n + 1 ELSE n

\* main(), up to the loop of process_directory.
main ==
    /\ pc = "start"
    /\ IF ~HasSeparator(argv)
       THEN /\ pc' = "exit1"
            /\ UNCHANGED <<pending, outDirs>>
       ELSE IF Len(AfterSeparator(argv)) < 2
       THEN /\ pc' = "exit1"
            /\ UNCHANGED <<pending, outDirs>>
       ELSE IF InputDirMissing(AfterSeparator(argv)[1])
       THEN /\ pc' = "exit1"
            /\ UNCHANGED <<pending, outDirs>>
       ELSE \* process_directory: os.makedirs(output_dir, exist_ok=True), rglob
            /\ pc' = "loop"
            /\ outDirs' = outDirs \cup { <<AfterSeparator(argv)[2]>> }
            /\ pending' = tree
    /\ UNCHANGED <<argv, tree, count, scene, selection, images, out, log, run, firstOut>>
    /\ UNCHANGED addonVars

\* One iteration of `for file_path in files:`.
LoopStep ==
    /\ pc = "loop"
    /\ \E e \in pending :
        /\ pending' = pending \ {e}
        /\ IF ~IsImage(e)
           THEN UNCHANGED <<count, scene, selection, images, outDirs, out, log>>
           ELSE LET out_subdir == <<AfterSeparator(argv)[2]>> \o e.dir
                    r == convert_image_to_glb(e, out_subdir)
                IN  /\ outDirs' = IF e.dir # <<>>
                                  THEN outDirs \cup { SubSeq(out_subdir, 1, k) :
                                                        k \in 1..Len(out_subdir) }
                                  ELSE outDirs
                    /\ scene' = r.scene
                    /\ selection' = r.selection
                    /\ images' = r.images
                    /\ out' = r.out
                    /\ count' = CountAfter(count, r.outcome = "ok")
                    /\ log' = Append(log, [file |-> e, outcome |-> r.outcome,
                                           atExport |-> r.atExport])
    /\ UNCHANGED <<argv, tree, pc, run, firstOut>>
    /\ UNCHANGED addonVars

\* The enumeration is exhausted: the count is printed and the script ends.
LoopExit ==
    /\ pc = "loop"
    /\ pending = {}
    /\ pc' = "done"
    /\ firstOut' = IF run = 1 THEN out ELSE firstOut
    /\ UNCHANGED <<argv, tree, pending, count, scene, selection, images, outDirs, out, log, run>>
    /\ UNCHANGED addonVars

\* The same command is run again: a new Blender, the same disk.
RunAgain ==
    /\ pc = "done"
    /\ run < MaxRuns
    /\ pc' = "start"
    /\ run' = run + 1
    /\ count' = 0
    /\ log' = <<>>
    /\ scene' = DefaultScene
    /\ selection' = DefaultSelection
    /\ images' = {}
    /\ UNCHANGED <<argv, tree, pending, outDirs, out, firstOut>>
    /\ UNCHANGED addonVars

(***************************************************************************)
(* The specifications.                                                     *)
(***************************************************************************)
\* register(): the property group with its defaults, on a default scene.
AddonStart ==
    /\ props = [export_path |-> DefaultExportPath, viewer_path |-> DefaultViewerPath,
                export_mode |-> "SCENE", clear_scene |-> TRUE]
    /\ objects = DefaultObjects
    /\ selected = {}
    /\ fs = InitialFs
    /\ procs = <<>>
    /\ last = Idle

\* The script is started with `a` as sys.argv on the input tree `t`.
BatchStart(a, t) ==
    /\ argv = a
    /\ tree = t
    /\ pc = "start"
    /\ pending = {}
    /\ count = 0
    /\ scene = DefaultScene
    /\ selection = DefaultSelection
    /\ images = {}
    /\ outDirs = {}
    /\ out = <<>>
    /\ log = <<>>
    /\ run = 1
    /\ firstOut = <<>>

\* The add-on, in a Blender where the batch script is not being run.
Init == AddonStart /\ BatchStart(Script, {})

Next ==
    \/ HOTLOAD_OT_import_execute
    \/ HOTLOAD_OT_import_from_path_execute
    \/ HOTLOAD_OT_export_execute
    \/ HOTLOAD_OT_set_path_execute
    \/ PanelEdit
    \/ SelectObjects
    \/ ViewerExit

Spec == Init /\ [][Next]_vars

\* The batch script, on every input tree and every command line.
InitBatch ==
    /\ AddonStart
    /\ \E a \in ArgvChoices, t \in Trees : BatchStart(a, t)

NextBatch == main \/ LoopStep \/ LoopExit \/ RunAgain

SpecBatch == InitBatch /\ [][NextBatch]_vars

\* The loop runs to its end: each iteration and the exit are taken when enabled.
FairBatch == SpecBatch /\ WF_vars(LoopStep) /\ WF_vars(LoopExit)

\* The batch script on one image of every size up to MaxDim x MaxDim.
InitPlane ==
    /\ AddonStart
    /\ \E width \in 0..MaxDim, height \in 0..MaxDim :
          BatchStart(Script \o <<"--", "in", "out">>,
                     { [kind |-> "file", dir |-> <<>>, stem |-> "a", ext |-> ".png",
                        w |-> width, h |-> height, fail |-> "none"] })

SpecPlane == InitPlane /\ [][NextBatch]_vars

(***************************************************************************)
(* The claims.                                                             *)
(***************************************************************************)
IsImport == last.op \in {"import", "import_from_path"}

\* The objects of the scene before the operator of `last` ran.
ObjectsBefore == (objects \ last.added) \cup last.removed

\* C1: an export in 'SELECTED' mode with nothing selected returns CANCELLED and
\* is a no-op: the exporter is not called, no viewer is started, and nothing on
\* disk, in the scene or in the process set differs from before the click.
C1_SelectedEmptyIsNoOp ==
    (last.op = "export" /\ last.mode = "SELECTED" /\ ~last.hadSelection) =>
        /\ last.result = "CANCELLED"
        /\ ~last.exporterCalled
        /\ ~last.popenCalled
        /\ last.started = {}
        /\ last.created = {}
        /\ last.removed = {}
        /\ last.added = {}

\* C2: an import whose resolved path is empty or not on disk reports an ERROR,
\* returns CANCELLED and leaves the scene's objects as they were, also with
\* clear_scene enabled: neither clear_scene_objects nor the importer is called.
C2_MissingPathLeavesScene ==
    (IsImport /\ (last.path = <<>> \/ last.path \notin fs)) =>
        /\ last.result = "CANCELLED"
        /\ last.reports = <<"ERROR">>
        /\ ~last.clearCalled
        /\ ~last.importerCalled
        /\ last.removed = {}
        /\ last.added = {}

C2_Witness ==
    /\ last.op = "import_from_path"
    /\ last.path # <<>>
    /\ last.path \notin fs
    /\ last.clear
    /\ \E o \in objects : o.type \in ClearTypes

\* C6: when the host exporter raises, the export reports an ERROR, returns
\* CANCELLED and neither checks for nor starts a viewer: a viewer is started only
\* in an execution whose export call completed.
C6_FailedExportAborts ==
    /\ (last.op = "export" /\ last.exporterRaised) =>
          /\ last.result = "CANCELLED"
          /\ last.reports = <<"ERROR">>
          /\ last.pgrep = "none"
          /\ ~last.popenCalled
          /\ last.started = {}
    /\ (last.op = "export" /\ (last.started # {} \/ last.popenCalled)) =>
          /\ last.exporterCalled
          /\ ~last.exporterRaised

C6_Witness ==
    /\ last.op = "export"
    /\ last.exporterRaised
    /\ last.path # <<>>
    /\ abspath(props.viewer_path) \in fs
    /\ procs = <<>>

\* C7: an export starts a viewer only if the viewer path exists and the check of
\* that same execution found no viewer running; it starts at most one, with the
\* export path as its argument, and returns FINISHED whether the viewer was
\* running, was started or could not be started.
C7_LaunchGuard ==
    last.op = "export" =>
        /\ last.started # {} =>
              /\ abspath(props.viewer_path) # <<>>
              /\ abspath(props.viewer_path) \in fs
              /\ last.pgrep \in {"rc1", "raise"}
              /\ ~last.viewerRunning
              /\ last.popenCalled
        /\ last.popenCalled => last.pgrep \in {"rc1", "raise"}
        /\ Cardinality(last.started) <= 1
        /\ \A p \in last.started :
              /\ p = procs[Len(procs)]
              /\ p.cmd = abspath(props.viewer_path)
              /\ p.arg = last.path
        /\ last.pgrep # "none" => last.result = "FINISHED"

C7_Witness ==
    /\ last.op = "export"
    /\ last.started # {}
    /\ last.pgrep = "rc1"
    /\ Len(procs) = 1

\* C8: an import whose path exists and whose importer raises reports an ERROR and
\* returns CANCELLED without rollback: with clear_scene the objects of the six
\* cleared types are gone and every other object is still there; without
\* clear_scene no object is removed, on any path.
C8_NoRollback ==
    /\ (IsImport /\ last.pathFound /\ last.importerRaised) =>
          /\ last.result = "CANCELLED"
          /\ last.reports = <<"ERROR">>
          /\ last.added = {}
          /\ last.clear =>
                /\ last.removed = { o \in ObjectsBefore : o.type \in ClearTypes }
                /\ objects = { o \in ObjectsBefore : o.type \notin ClearTypes }
    /\ (IsImport /\ ~last.clear) => last.removed = {}
    /\ IsImport => \A o \in last.removed : o.type \in ClearTypes

C8_Witness ==
    /\ IsImport
    /\ last.pathFound
    /\ last.importerRaised
    /\ last.clear
    /\ \E o \in last.removed : o.type = "MESH"
    /\ \E o \in objects : o.type = "CAMERA"

Images == { e \in tree : IsImage(e) }

Attempts == { i \in 1..Len(log) : TRUE }

Failed == { i \in 1..Len(log) : log[i].outcome # "ok" }

Succeeded == { i \in 1..Len(log) : log[i].outcome = "ok" }

\* Where the output of image e belongs: output_dir/d/name.glb.
Expected(e) == OutputPath(<<AfterSeparator(argv)[2]>> \o e.dir, e.stem)

\* C3: when a run ends the output tree holds exactly N - E .glb files, N the
\* number of image files of the input tree and E the number whose conversion
\* raised, each converted image d/name.ext at output_dir/d/name.glb.
C3_OneOutputPerImage ==
    pc = "done" =>
        /\ Cardinality(DOMAIN out) = Cardinality(Images) - Cardinality(Failed)
        /\ \A i \in Succeeded : Expected(log[i].file) \in DOMAIN out

\* The plane create_textured_plane builds for the image file e.
IsPlaneOf(o, e) == o.name = e.stem /\ o.kind = "MESH" /\ o.image = ImageOf(e)

\* C4: at every call of the exporter the scene holds exactly the one plane built
\* for the current image, and a second run on the same input leaves the same
\* output files with the same content as the first.
C4_Idempotent ==
    /\ \A i \in Attempts :
          log[i].outcome \in {"ok", "export"} =>
              /\ Cardinality(log[i].atExport) = 1
              /\ \A o \in log[i].atExport : IsPlaneOf(o, log[i].file)
    /\ (run = 2 /\ pc = "done") => out = firstOut

\* C4, the part about the scene alone: it holds in every reachable state.
C4_OnePlaneAtExport ==
    \A i \in Attempts :
        log[i].outcome \in {"ok", "export"} =>
            /\ Cardinality(log[i].atExport) = 1
            /\ \A o \in log[i].atExport : IsPlaneOf(o, log[i].file)

\* No two images of the input tree would be written to the same output file.
DistinctStems ==
    \A e1, e2 \in Images : (e1.dir = e2.dir /\ e1.stem = e2.stem) => e1 = e2

\* C4 where no two images share a directory and a stem: the second run leaves
\* what the first left.  It holds in every reachable state.
C4_IdempotentOnDistinctStems ==
    (DistinctStems /\ run = 2 /\ pc = "done") => out = firstOut

\* C5 (state part): no file is attempted twice, every image is attempted or still
\* to come, and the count is the number of conversions that did not raise.
C5_Safety ==
    /\ \A i, j \in Attempts : i # j => log[i].file # log[j].file
    /\ \A i \in Attempts : log[i].file \notin pending /\ IsImage(log[i].file)
    /\ pc \in {"loop", "done"} =>
          /\ { log[i].file : i \in Attempts } \cup { e \in pending : IsImage(e) } = Images
          /\ count = Cardinality(Succeeded)
    /\ pc = "done" => pending = {}

\* C5: a conversion that raises does not end the batch: each image file is
\* attempted exactly once, those after a failing one included, the loop ends
\* when the enumeration is exhausted, and the count reported is the number of
\* conversions that completed.
C5_FailureIsNotFatal ==
    /\ []C5_Safety
    /\ [](pc = "loop" => <>(pc = "done"))

C5_Witness ==
    /\ pc = "done"
    /\ \E i, j \in Attempts : i < j /\ log[i].outcome # "ok" /\ log[j].outcome = "ok"
    /\ \E i, j \in Attempts : i < j /\ log[i].outcome = "ok" /\ log[j].outcome # "ok"
    /\ count = 1

\* What C9 says of the plane o built for an image of size w x h, with the
\* two products compared by `same`.
PlaneFits(o, w, h, exact) ==
    /\ w > h => o.plane_width = One
    /\ h > w => o.plane_height = One
    /\ w = h => o.plane_width = One /\ o.plane_height = One
    /\ AtMostOne(o.plane_width)
    /\ AtMostOne(o.plane_height)
    /\ IF exact
       THEN Mul(o.plane_width, h) = Mul(o.plane_height, w)
       ELSE WithinOneUlp(Mul(o.plane_width, h), Mul(o.plane_height, w))

\* A 0 x 0 image ends as a conversion error: no plane, no export, no output.
ZeroSizeIsAnError(i) ==
    /\ log[i].outcome = "zerodiv"
    /\ log[i].atExport = {}
    /\ scene = {}
    /\ out = <<>>
    /\ count = 0

PlaneClaim(exact) ==
    \A i \in Attempts :
        LET e == log[i].file
        IN  IF e.w = 0 /\ e.h = 0
            THEN ZeroSizeIsAnError(i)
            ELSE /\ log[i].outcome = "ok"
                 /\ Cardinality(log[i].atExport) = 1
                 /\ \A o \in log[i].atExport : PlaneFits(o, e.w, e.h, exact)

\* C9 as stated: the larger plane dimension is exactly 1, the other at most 1,
\* plane_width * height = plane_height * width, a square image gives (1, 1), and
\* a 0 x 0 image is a conversion error.
C9_ExactAspect == PlaneClaim(TRUE)

\* C9 as amended: the same, the two products being equal or neighbouring doubles
\* (the quotient is rounded to a double, so they may differ in the last place).
C9_RoundedAspect == PlaneClaim(FALSE)

C9_Witness ==
    /\ pc = "done"
    /\ \E i \in Attempts :
          /\ log[i].outcome = "ok"
          /\ \E o \in log[i].atExport :
                /\ Mul(o.plane_width, log[i].file.h) # Mul(o.plane_height, log[i].file.w)
                /\ PlaneFits(o, log[i].file.w, log[i].file.h, FALSE)

\* C10: main exits with status 1 before any side effect when there is no '--',
\* when fewer than two arguments follow it or when the input directory does not
\* exist; process_directory is reached only when all three checks pass.
C10_ValidatesFirst ==
    /\ pc = "exit1" =>
          /\ outDirs = {}
          /\ out = <<>>
          /\ scene = DefaultScene
          /\ selection = DefaultSelection
          /\ images = {}
          /\ log = <<>>
          /\ count = 0
          /\ pending = {}
    /\ pc \in {"loop", "done"} =>
          /\ HasSeparator(argv)
          /\ Len(AfterSeparator(argv)) >= 2
          /\ isdir(AfterSeparator(argv)[1])
    /\ (~HasSeparator(argv) \/ Len(AfterSeparator(argv)) < 2
                            \/ ~isdir(AfterSeparator(argv)[1])) =>
          pc \in {"start", "exit1"}

C10_Witness ==
    /\ pc = "exit1"
    /\ HasSeparator(argv)
    /\ Len(AfterSeparator(argv)) >= 2
    /\ ~isdir(AfterSeparator(argv)[1])

====
